---- MODULE Spec2Model ----
(***************************************************************************)
(* Model of the transcript indexing and search pipeline:                   *)
(*   transcript.py  get_transcript, get_json_transcript                    *)
(*   indexer.py     create_chunks, get_embedding, index_video_transcript,  *)
(*                  search_videos                                          *)
(*   index.py       validate_youtube_url, process_video, search_transcript,*)
(*                  main                                                   *)
(*                                                                         *)
(* Text is a sequence of atoms (indivisible pieces of a Python str): a     *)
(* word, a digit, the separator " ", the literal "_chunk_", ...  Python's  *)
(* str concatenation is \o on these sequences.  Seconds are floats in the  *)
(* program; here they are counted in ticks of 1/TicksPerSecond second, so  *)
(* that int() truncation is visible.  Python's None is the record None     *)
(* below; an exception is the name of its class.                           *)
(***************************************************************************)
EXTENDS Integers, Sequences, FiniteSets, TLC

\* ------------------------------------------------------------------ bounds
MaxEntries == 4
MaxNegChunk == 2
MaxTopK == 2
TicksPerSecond == 2
\* create_chunks(transcript_data, chunk_size: int = 3)
DefaultChunkSize == 3

\* ------------------------------------------------------- Python primitives
\* Optional[list]: None, or a list
None == [none |-> TRUE, val |-> <<>>]
Some(v) == [none |-> FALSE, val |-> v]

Min(a, b) == IF a <= b THEN a ELSE b

Digit(d) == <<"0", "1", "2", "3", "4", "5", "6", "7", "8", "9">>[d + 1]

\* str(n) / f"{n}" for an int n >= 0
RECURSIVE Dec(_)
Dec(n) == IF n < 10 THEN <<Digit(n)>> ELSE Dec(n \div 10) \o <<Digit(n % 10)>>

\* "%02d" % n
Dec2(n) == IF n < 10 THEN <<"0", Digit(n)>> ELSE Dec(n)

\* sep.join(parts)
RECURSIVE Join(_, _)
Join(parts, sep) ==
    IF parts = <<>> THEN <<>>
    ELSE IF Len(parts) = 1 THEN parts[1]
    ELSE parts[1] \o sep \o Join(Tail(parts), sep)

\* seq[lo:hi] for 0 <= lo, with Python's clipping of hi to len(seq)
PySlice(seq, lo, hi) == SubSeq(seq, lo + 1, Min(hi, Len(seq)))

\* list(range(0, stop, step)) for step >= 1
RECURSIVE RangeUp(_, _, _)
RangeUp(i, stop, step) ==
    IF i >= stop THEN <<>> ELSE <<i>> \o RangeUp(i + step, stop, step)

\* A faulty variant of PyRange0: the trailing partial group is dropped
\* (range(0, stop - stop % step, step)).
PyRange0DropPartial(stop, step) ==
    IF step = 0 THEN [err |-> "ValueError", val |-> <<>>]
    ELSE IF step < 0 THEN [err |-> "none", val |-> <<>>]
    ELSE [err |-> "none", val |-> RangeUp(0, stop - (stop % step), step)]

\* range(0, stop, step) with stop >= 0: a zero step raises ValueError, a
\* negative step counts down from 0 and is empty at once
PyRange0(stop, step) ==
    IF step = 0 THEN [err |-> "ValueError", val |-> <<>>]
    ELSE IF step < 0 THEN [err |-> "none", val |-> <<>>]
    ELSE [err |-> "none", val |-> RangeUp(0, stop, step)]

\* int(x) of a non-negative float held in ticks
IntSeconds(ticks) == ticks \div TicksPerSecond

\* str(timedelta(seconds=s)) for an int s >= 0: "H:MM:SS", with a leading
\* "D day(s), " from one day on
TimedeltaStr(s) ==
    LET days == s \div 86400
        rest == s % 86400
        hms  == Dec(rest \div 3600) \o <<":">> \o Dec2((rest % 3600) \div 60)
                   \o <<":">> \o Dec2(rest % 60)
    IN  IF days = 0 THEN hms
        ELSE Dec(days) \o <<IF days = 1 THEN " day, " ELSE " days, ">> \o hms

\* ------------------------------------------------------------ create_chunks
\* One pass of the loop body: the dict appended for the slice `chunk`
MakeChunk(chunk) ==
    LET start_time == chunk[1].start
        end_time   == chunk[Len(chunk)].start + chunk[Len(chunk)].duration
    IN  [text |-> Join([k \in 1..Len(chunk) |-> chunk[k].text], <<" ">>),
         start_time |-> start_time,
         end_time |-> end_time,
         start_formatted |-> TimedeltaStr(IntSeconds(start_time)),
         end_formatted |-> TimedeltaStr(IntSeconds(end_time))]

\* create_chunks(transcript_data, chunk_size): len(None) raises TypeError,
\* range() raises ValueError on a zero step
create_chunks(transcript_data, chunk_size) ==
    IF transcript_data.none THEN [err |-> "TypeError", val |-> <<>>]
    ELSE LET data == transcript_data.val
             r == PyRange0(Len(data), chunk_size)
         IN  IF r.err # "none" THEN [err |-> r.err, val |-> <<>>]
             ELSE [err |-> "none",
                   val |-> [j \in 1..Len(r.val) |->
                              MakeChunk(PySlice(data, r.val[j], r.val[j] + chunk_size))]]

\* ------------------------------------------------------------ json module
\* A JSON text is a sequence of tokens [t, v]; v carries the object of an
\* "obj" token and is NoEntry otherwise.
NoEntry == [text |-> <<>>, start |-> 0, duration |-> 0]
Tok(t) == [t |-> t, v |-> NoEntry]
Obj(e) == [t |-> "obj", v |-> e]

RECURSIVE JsonItems(_)
JsonItems(list) ==
    IF list = <<>> THEN <<>>
    ELSE IF Len(list) = 1 THEN <<Obj(list[1])>>
    ELSE <<Obj(list[1]), Tok(",")>> \o JsonItems(Tail(list))

\* json.dumps(None) = "null"; json.dumps([e1, e2]) = "[{..}, {..}]"
json_dumps(x) ==
    IF x.none THEN <<Tok("null")>>
    ELSE <<Tok("[")>> \o JsonItems(x.val) \o <<Tok("]")>>

RECURSIVE JsonObjects(_)
JsonObjects(toks) ==
    IF toks = <<>> THEN <<>>
    ELSE IF toks[1].t = "obj" THEN <<toks[1].v>> \o JsonObjects(Tail(toks))
    ELSE JsonObjects(Tail(toks))

\* json.loads on a text json.dumps wrote
json_loads(toks) ==
    IF toks = <<Tok("null")>> THEN None ELSE Some(JsonObjects(toks))

\* ------------------------------------------------------------ str helpers
\* s.find(pat) + 1: the first position where pat starts in s, 0 if none
Find(s, pat) ==
    LET hits == {p \in 1..(Len(s) - Len(pat) + 1) : SubSeq(s, p, p + Len(pat) - 1) = pat}
    IN  IF hits = {} THEN 0 ELSE CHOOSE p \in hits : \A q \in hits : p <= q

\* pat in s
InStr(pat, s) == Find(s, pat) # 0

\* s.split(sep)[0]
SplitHead(s, sep) ==
    IF InStr(sep, s) THEN SubSeq(s, 1, Find(s, sep) - 1) ELSE s

\* s.split(sep)[1]: IndexError when sep does not occur in s
SplitSecond(s, sep) ==
    IF ~InStr(sep, s) THEN [err |-> "IndexError", val |-> <<>>]
    ELSE [err |-> "none",
          val |-> SplitHead(SubSeq(s, Find(s, sep) + Len(sep), Len(s)), sep)]

WatchMarker == <<"youtube.com/", "watch?v=">>
WatchSep == <<"watch?v=">>
ShortSep == <<"youtu.be/">>

\* The video id both validate_youtube_url and process_video cut from the url
ExtractVideoId(url) ==
    IF InStr(WatchMarker, url)
    THEN LET r == SplitSecond(url, WatchSep)
         IN  IF r.err # "none" THEN r ELSE [err |-> "none", val |-> SplitHead(r.val, <<"&">>)]
    ELSE LET r == SplitSecond(url, ShortSep)
         IN  IF r.err # "none" THEN r ELSE [err |-> "none", val |-> SplitHead(r.val, <<"?">>)]

validate_youtube_url(url) ==
    IF ~InStr(WatchMarker, url) /\ ~InStr(ShortSep, url) THEN FALSE
    ELSE LET r == ExtractVideoId(url)
         IN  IF r.err # "none" THEN FALSE ELSE Len(r.val) > 0

\* ------------------------------------------------------------ inputs
VidA == <<"a">>
VidB == <<"a", "_chunk_", "0">>

Urls ==
    { <<"https://www.", "youtube.com/", "watch?v=", "a">>,
      <<"https://www.", "youtube.com/", "watch?v=", "a", "&", "t=1">>,
      <<"https://", "youtu.be/", "a", "_chunk_", "0", "?", "t=1">>,
      <<"https://www.", "youtube.com/", "watch?v=">>,
      <<"https://", "example.com/", "a">> }

\* Two caption tracks the transcript service may hold for a video; a fetch
\* returns a prefix of one of them (captions get extended or replaced).
CaptionText(t, p) ==
    IF t = 1 THEN (IF p % 2 = 1 THEN <<"a">> ELSE <<"b", " ", "a">>)
    ELSE (IF p % 2 = 1 THEN <<"b">> ELSE <<"a">>)

CaptionEntry(t, p) ==
    [text |-> CaptionText(t, p),
     start |-> IF t = 1 THEN 3 * (p - 1) ELSE 5 * (p - 1) + 1,
     duration |-> IF t = 1 THEN 3 ELSE 4]

Transcripts == {[p \in 1..n |-> CaptionEntry(t, p)] : t \in 1..2, n \in 0..MaxEntries}

Queries == {<<"a">>, <<"b">>}

TopKs == 0..MaxTopK

\* Every list over three distinct caption entries, for create_chunks alone
ChunkEntries == {CaptionEntry(1, 1), CaptionEntry(1, 2), CaptionEntry(2, 1)}
ChunkInputs ==
    {None} \cup {Some(l) : l \in UNION {[1..n -> ChunkEntries] : n \in 0..MaxEntries}}
ChunkSizes == (0 - MaxNegChunk)..(MaxEntries + 1)

\* ------------------------------------------------------------ collaborators
\* YouTubeTranscriptApi.get_transcript: a caption list, or an exception
\* (captions disabled, no such video)
FetchOutcomes == {[raised |-> TRUE, list |-> <<>>]}
                 \cup {[raised |-> FALSE, list |-> l] : l \in Transcripts}

\* get_transcript: the except branch prints and returns None
get_transcript(outcome) == IF outcome.raised THEN None ELSE Some(outcome.list)

\* get_json_transcript
get_json_transcript(outcome) == json_dumps(get_transcript(outcome))

RECURSIVE Count(_, _)
Count(text, atom) ==
    IF text = <<>> THEN 0
    ELSE (IF text[1] = atom THEN 1 ELSE 0) + Count(Tail(text), atom)

\* genai.embed_content(...)["embedding"]: a function of the content, here
\* the bag of the words "a" and "b"
EmbedContent(req) == <<Count(req.content, "a"), Count(req.content, "b")>>

\* The request get_embedding sends for `text`
EmbedRequest(text) ==
    [model |-> "models/embedding-001", content |-> text,
     task_type |-> "retrieval_document"]

\* The metadata dict of the upsert
Metadata(vid, chunk) ==
    [video_id |-> vid, text |-> chunk.text,
     start_time |-> chunk.start_time, end_time |-> chunk.end_time,
     start_formatted |-> chunk.start_formatted,
     end_formatted |-> chunk.end_formatted]

\* A faulty variant of Upsert: the write replaces the collection
UpsertReplacing(s, id, values, metadata) ==
    [k \in {id} |-> [values |-> values, metadata |-> metadata]]

\* index.upsert(vectors=[{id, values, metadata}]): insert or overwrite by id
Upsert(s, id, values, metadata) ==
    [k \in (DOMAIN s) \cup {id} |->
        IF k = id THEN [values |-> values, metadata |-> metadata] ELSE s[k]]

\* The store's similarity score of a stored vector for a query vector
Score(q, v) == q[1] * v[1] + q[2] * v[2]

\* The rankings of at most k ids of `ids` by descending score; ties in any order
RECURSIVE Rankings(_, _, _, _)
Rankings(s, q, ids, k) ==
    IF k <= 0 \/ ids = {} THEN {<<>>}
    ELSE LET best == {x \in ids : \A y \in ids :
                         Score(q, s[x].values) >= Score(q, s[y].values)}
         IN  UNION {{<<x>> \o r : r \in Rankings(s, q, ids \ {x}, k - 1)} : x \in best}

\* index.query(vector, top_k, include_metadata=True).matches
QueryMatches(s, vector, k) ==
    {[n \in 1..Len(r) |->
        [id |-> r[n], score |-> Score(vector, s[r[n]].values),
         metadata |-> s[r[n]].metadata]] : r \in Rankings(s, vector, DOMAIN s, k)}

\* The dict search_videos builds for one match
SearchResult(match) ==
    [video_id |-> match.metadata.video_id, text |-> match.metadata.text,
     start_time |-> match.metadata.start_time, end_time |-> match.metadata.end_time,
     start_formatted |-> match.metadata.start_formatted,
     end_formatted |-> match.metadata.end_formatted,
     score |-> match.score]

\* A faulty variant of MapMatches: the best match is left out
MapMatchesSkipFirst(ms) == [n \in 1..(Len(ms) - 1) |-> SearchResult(ms[n + 1])]

\* The list comprehension over results.matches
MapMatches(ms) == [n \in 1..Len(ms) |-> SearchResult(ms[n])]

\* A faulty variant of TranscriptMissing: "null" and "[]" count as no transcript
TranscriptMissingOrEmpty(json) ==
    Len(json) = 0 \/ json = <<Tok("null")>> \/ json = <<Tok("["), Tok("]")>>

\* `not transcript` in process_video: a str is falsy only when empty
TranscriptMissing(json) == Len(json) = 0

\* ------------------------------------------------------------------ state
VARIABLES
    pc,              \* where the program stands
    store,           \* the vector store collection: id -> [values, metadata]
    via,             \* how index_video_transcript was entered
    video_id,        \* process_video / index_video_transcript: video_id
    fetched,         \* get_json_transcript: transcript_data
    transcript_json, \* the JSON text handed to index_video_transcript
    transcript,      \* index_video_transcript: transcript (create_chunks' input)
    chunk_size,      \* create_chunks: chunk_size
    chunks,          \* create_chunks' outcome [err, val]
    i,               \* the loop index of enumerate(chunks)
    embedding,       \* the vector get_embedding returned last
    query,           \* search_videos: query
    top_k,           \* search_videos: top_k
    matches,         \* results.matches of index.query
    results,         \* the list search_videos returns
    result,          \* the outcome of the running call [status, exc, at]
    embedReqs,       \* history: the embedding requests of the running call
    store0,          \* history: the store when the running call began
    upserted,        \* history: the ids the running call upserted, in order
    failedAt,        \* history: the ordinal whose embed or upsert failed, or -1
    prevRun,         \* history: the last call, when it was a completed indexing run
    rerun            \* history: the running call repeats prevRun at once

vars == <<pc, store, via, video_id, fetched, transcript_json, transcript,
          chunk_size, chunks, i, embedding, query, top_k, matches, results,
          result, embedReqs, store0, upserted, failedAt, prevRun, rerun>>

\* A faulty variant of ChunkId: the ordinal is the number of vectors in the store
ChunkIdByStoreSize(vid, ord) == vid \o <<"_chunk_">> \o Dec(Cardinality(DOMAIN store))

\* A faulty variant of ChunkId: ordinals count from 1
ChunkIdFromOne(vid, ord) == vid \o <<"_chunk_">> \o Dec(ord + 1)

\* f"{video_id}_chunk_{i}"
ChunkId(vid, ord) == vid \o <<"_chunk_">> \o Dec(ord)

NoRun == [valid |-> FALSE, video_id |-> <<>>, json |-> <<>>]
NoChunks == [err |-> "none", val |-> <<>>]
Outcome(status, exc, at) == [status |-> status, exc |-> exc, at |-> at]
EmptyStore == [k \in {} |-> 0]

\* The locals of a call that has not begun
Idle ==
    /\ via = "none" /\ video_id = <<>> /\ fetched = None
    /\ transcript_json = <<>> /\ transcript = None /\ chunks = NoChunks
    /\ i = 0 /\ embedding = <<>> /\ query = <<>> /\ top_k = 0
    /\ matches = <<>> /\ results = <<>> /\ embedReqs = <<>>
    /\ upserted = <<>> /\ failedAt = -1 /\ rerun = FALSE

\* The locals of a call are dropped when it is over
DropLocals ==
    /\ via' = "none" /\ video_id' = <<>> /\ fetched' = None
    /\ transcript_json' = <<>> /\ transcript' = None /\ chunks' = NoChunks
    /\ i' = 0 /\ embedding' = <<>> /\ query' = <<>> /\ top_k' = 0
    /\ matches' = <<>> /\ results' = <<>> /\ embedReqs' = <<>>
    /\ upserted' = <<>> /\ failedAt' = -1 /\ rerun' = FALSE

Init ==
    /\ pc = "menu"
    /\ store = EmptyStore
    /\ store0 = EmptyStore
    /\ chunk_size = DefaultChunkSize
    /\ result = Outcome("none", "", "")
    /\ prevRun = NoRun
    /\ Idle

Repeats(vid, json) ==
    prevRun.valid /\ prevRun.video_id = vid /\ prevRun.json = json

\* ------------------------------------------------------------------ main
\* main, choice 1: a url is read and validated; process_video cuts the
\* video id from it and reaches the transcript step
MainIndexVideo(url) ==
    /\ pc = "menu"
    /\ IF ~validate_youtube_url(url)
       THEN /\ result' = Outcome("rejected", "", "main")
            /\ UNCHANGED <<pc, store0, video_id, via>>
       ELSE /\ pc' = "pv_transcript"
            /\ via' = "process_video"
            /\ video_id' = ExtractVideoId(url).val
            /\ store0' = store
            /\ result' = Outcome("running", "", "")
    /\ UNCHANGED <<store, fetched, transcript_json, transcript, chunk_size, chunks,
                   i, embedding, query, top_k, matches, results, embedReqs,
                   upserted, failedAt, prevRun, rerun>>

\* process_video: transcript = get_json_transcript(video_id); a falsy
\* transcript raises ValueError, any other is handed to index_video_transcript
ProcessVideoGetTranscript(outcome) ==
    /\ pc = "pv_transcript"
    /\ fetched' = get_transcript(outcome)
    /\ transcript_json' = get_json_transcript(outcome)
    /\ IF TranscriptMissing(transcript_json')
       THEN /\ pc' = "pv_raised"
            /\ result' = Outcome("error", "ValueError", "process_video")
            /\ rerun' = FALSE
       ELSE /\ pc' = "idx_parse"
            /\ rerun' = Repeats(video_id, transcript_json')
            /\ UNCHANGED result
    /\ prevRun' = NoRun
    /\ UNCHANGED <<store, via, video_id, transcript, chunk_size, chunks, i,
                   embedding, query, top_k, matches, results, embedReqs, store0,
                   upserted, failedAt>>

\* A caller other than process_video enters index_video_transcript
CallIndexVideoTranscript(vid, json) ==
    /\ pc = "menu"
    /\ pc' = "idx_parse"
    /\ via' = "direct"
    /\ video_id' = vid
    /\ transcript_json' = json
    /\ store0' = store
    /\ result' = Outcome("running", "", "")
    /\ rerun' = Repeats(vid, json)
    /\ prevRun' = NoRun
    /\ UNCHANGED <<store, fetched, transcript, chunk_size, chunks, i, embedding,
                   query, top_k, matches, results, embedReqs, upserted, failedAt>>

\* ------------------------------------------------- index_video_transcript
\* transcript = json.loads(transcript_data); chunks = create_chunks(transcript);
\* an empty chunks list skips the loop and the call has succeeded
IndexParseAndChunk ==
    /\ pc = "idx_parse"
    /\ transcript' = json_loads(transcript_json)
    /\ chunks' = create_chunks(transcript', chunk_size)
    /\ i' = 0
    /\ IF chunks'.err # "none"
       THEN /\ pc' = "idx_raised"
            /\ result' = Outcome("error", chunks'.err, "index_video_transcript")
       ELSE IF chunks'.val = <<>>
       THEN /\ pc' = "idx_done"
            /\ result' = Outcome("ok", "", "")
       ELSE /\ pc' = "idx_embed"
            /\ UNCHANGED result
    /\ UNCHANGED <<store, via, video_id, fetched, transcript_json, chunk_size,
                   embedding, query, top_k, matches, results, embedReqs, store0,
                   upserted, failedAt, prevRun, rerun>>

IndexRequest == [caller |-> "index_video_transcript",
                 req |-> EmbedRequest(chunks.val[i + 1].text)]

\* embedding = get_embedding(chunk["text"]), the service answering
IndexEmbedOk ==
    /\ pc = "idx_embed"
    /\ embedReqs' = Append(embedReqs, IndexRequest)
    /\ embedding' = EmbedContent(IndexRequest.req)
    /\ pc' = "idx_upsert"
    /\ UNCHANGED <<store, via, video_id, fetched, transcript_json, transcript,
                   chunk_size, chunks, i, query, top_k, matches, results, result,
                   store0, upserted, failedAt, prevRun, rerun>>

\* A faulty variant of IndexEmbedFail: the error is swallowed and the loop goes on
\* with the next chunk
IndexEmbedFailSkipsChunk ==
    /\ pc = "idx_embed"
    /\ embedReqs' = Append(embedReqs, IndexRequest)
    /\ failedAt' = i
    /\ i' = i + 1
    /\ IF i + 1 = Len(chunks.val)
       THEN pc' = "idx_done" /\ result' = Outcome("ok", "", "")
       ELSE pc' = "idx_embed" /\ UNCHANGED result
    /\ UNCHANGED <<store, via, video_id, fetched, transcript_json, transcript,
                   chunk_size, chunks, embedding, query, top_k, matches,
                   results, store0, upserted, prevRun, rerun>>

\* get_embedding re-raises the service's error and so does the call
IndexEmbedFail ==
    /\ pc = "idx_embed"
    /\ embedReqs' = Append(embedReqs, IndexRequest)
    /\ failedAt' = i
    /\ pc' = "idx_raised"
    /\ result' = Outcome("error", "EmbeddingError", "index_video_transcript")
    /\ UNCHANGED <<store, via, video_id, fetched, transcript_json, transcript,
                   chunk_size, chunks, i, embedding, query, top_k, matches,
                   results, store0, upserted, prevRun, rerun>>

\* index.upsert(...) of chunk i under its id, then the next chunk; after the
\* last one the call has succeeded
IndexUpsertOk ==
    /\ pc = "idx_upsert"
    /\ store' = Upsert(store, ChunkId(video_id, i), embedding,
                       Metadata(video_id, chunks.val[i + 1]))
    /\ upserted' = Append(upserted, ChunkId(video_id, i))
    /\ i' = i + 1
    /\ IF i + 1 = Len(chunks.val)
       THEN pc' = "idx_done" /\ result' = Outcome("ok", "", "")
       ELSE pc' = "idx_embed" /\ UNCHANGED result
    /\ UNCHANGED <<via, video_id, fetched, transcript_json, transcript, chunk_size,
                   chunks, embedding, query, top_k, matches, results, embedReqs,
                   store0, failedAt, prevRun, rerun>>

\* index.upsert raises: nothing is written and the call re-raises
IndexUpsertFail ==
    /\ pc = "idx_upsert"
    /\ failedAt' = i
    /\ pc' = "idx_raised"
    /\ result' = Outcome("error", "UpsertError", "index_video_transcript")
    /\ UNCHANGED <<store, via, video_id, fetched, transcript_json, transcript,
                   chunk_size, chunks, i, embedding, query, top_k, matches,
                   results, embedReqs, store0, upserted, prevRun, rerun>>

\* The call is over (returned, or raised through process_video to main, which
\* prints the failure) and main is back at its prompt
IndexReturn ==
    /\ pc \in {"idx_done", "idx_raised", "pv_raised"}
    /\ pc' = "menu"
    /\ prevRun' = IF result.status = "ok"
                  THEN [valid |-> TRUE, video_id |-> video_id, json |-> transcript_json]
                  ELSE NoRun
    /\ result' = Outcome("none", "", "")
    /\ DropLocals
    /\ UNCHANGED <<store, chunk_size, store0>>

\* ------------------------------------------------------------ search_videos
\* main, choice 2: search_transcript(query, top_k) calls search_videos
MainSearch(q, k) ==
    /\ pc = "menu"
    /\ pc' = "search_embed"
    /\ query' = q
    /\ top_k' = k
    /\ store0' = store
    /\ result' = Outcome("running", "", "")
    /\ prevRun' = NoRun
    /\ UNCHANGED <<store, via, video_id, fetched, transcript_json, transcript,
                   chunk_size, chunks, i, embedding, matches, results, embedReqs,
                   upserted, failedAt, rerun>>

SearchRequest == [caller |-> "search_videos", req |-> EmbedRequest(query)]

\* query_embedding = get_embedding(query), the service answering
SearchEmbedOk ==
    /\ pc = "search_embed"
    /\ embedReqs' = Append(embedReqs, SearchRequest)
    /\ embedding' = EmbedContent(SearchRequest.req)
    /\ pc' = "search_query"
    /\ UNCHANGED <<store, via, video_id, fetched, transcript_json, transcript,
                   chunk_size, chunks, i, query, top_k, matches, results, result,
                   store0, upserted, failedAt, prevRun, rerun>>

SearchEmbedFail ==
    /\ pc = "search_embed"
    /\ embedReqs' = Append(embedReqs, SearchRequest)
    /\ pc' = "search_raised"
    /\ result' = Outcome("error", "EmbeddingError", "search_videos")
    /\ UNCHANGED <<store, via, video_id, fetched, transcript_json, transcript,
                   chunk_size, chunks, i, embedding, query, top_k, matches,
                   results, store0, upserted, failedAt, prevRun, rerun>>

\* results = index.query(...); the matches are mapped and returned
SearchQueryOk ==
    /\ pc = "search_query"
    /\ \E ms \in QueryMatches(store, embedding, top_k) :
          /\ matches' = ms
          /\ results' = MapMatches(ms)
    /\ pc' = "search_done"
    /\ result' = Outcome("ok", "", "")
    /\ UNCHANGED <<store, via, video_id, fetched, transcript_json, transcript,
                   chunk_size, chunks, i, embedding, query, top_k, embedReqs,
                   store0, upserted, failedAt, prevRun, rerun>>

\* index.query raises (the service fails, or refuses the top_k)
SearchQueryFail ==
    /\ pc = "search_query"
    /\ pc' = "search_raised"
    /\ result' = Outcome("error", "QueryError", "search_videos")
    /\ UNCHANGED <<store, via, video_id, fetched, transcript_json, transcript,
                   chunk_size, chunks, i, embedding, query, top_k, matches,
                   results, embedReqs, store0, upserted, failedAt, prevRun, rerun>>

\* search_videos is over and main is back at its prompt
SearchReturn ==
    /\ pc \in {"search_done", "search_raised"}
    /\ pc' = "menu"
    /\ result' = Outcome("none", "", "")
    /\ DropLocals
    /\ UNCHANGED <<store, chunk_size, store0, prevRun>>

\* main, choice 3
MainExit ==
    /\ pc = "menu"
    /\ pc' = "exit"
    /\ UNCHANGED <<store, via, video_id, fetched, transcript_json, transcript,
                   chunk_size, chunks, i, embedding, query, top_k, matches,
                   results, result, embedReqs, store0, upserted, failedAt,
                   prevRun, rerun>>

Next ==
    \/ \E url \in Urls : MainIndexVideo(url)
    \/ \E o \in FetchOutcomes : ProcessVideoGetTranscript(o)
    \/ \E vid \in {VidA, VidB}, l \in Transcripts :
          CallIndexVideoTranscript(vid, json_dumps(Some(l)))
    \/ IndexParseAndChunk
    \/ IndexEmbedOk
    \/ IndexEmbedFail
    \/ IndexUpsertOk
    \/ IndexUpsertFail
    \/ IndexReturn
    \/ \E q \in Queries, k \in TopKs : MainSearch(q, k)
    \/ SearchEmbedOk
    \/ SearchEmbedFail
    \/ SearchQueryOk
    \/ SearchQueryFail
    \/ SearchReturn
    \/ MainExit

Spec == Init /\ [][Next]_vars

\* ------------------------------------------------- create_chunks on its own
ChunkInit ==
    /\ pc = "cc_call"
    /\ transcript \in ChunkInputs
    /\ chunk_size \in ChunkSizes
    /\ store = EmptyStore
    /\ store0 = EmptyStore
    /\ result = Outcome("none", "", "")
    /\ prevRun = NoRun
    /\ via = "none" /\ video_id = <<>> /\ fetched = None
    /\ transcript_json = <<>> /\ chunks = NoChunks
    /\ i = 0 /\ embedding = <<>> /\ query = <<>> /\ top_k = 0
    /\ matches = <<>> /\ results = <<>> /\ embedReqs = <<>>
    /\ upserted = <<>> /\ failedAt = -1 /\ rerun = FALSE

\* chunks = create_chunks(transcript, chunk_size)
CreateChunksCall ==
    /\ pc = "cc_call"
    /\ chunks' = create_chunks(transcript, chunk_size)
    /\ pc' = "cc_ret"
    /\ result' = IF chunks'.err = "none" THEN Outcome("ok", "", "")
                 ELSE Outcome("error", chunks'.err, "create_chunks")
    /\ UNCHANGED <<store, via, video_id, fetched, transcript_json, transcript,
                   chunk_size, i, embedding, query, top_k, matches, results,
                   embedReqs, store0, upserted, failedAt, prevRun, rerun>>

ChunkNext == CreateChunksCall

ChunkSpec == ChunkInit /\ [][ChunkNext]_vars

\* ------------------------------------------------------------------ claims
InIndexCall == pc \in {"idx_parse", "idx_embed", "idx_upsert", "idx_done", "idx_raised"}
InSearchCall == pc \in {"search_embed", "search_query", "search_done", "search_raised"}

\* The id the specification gives the chunk of ordinal n of video vid
SpecId(vid, n) == vid \o <<"_chunk_">> \o Dec(n)

\* What a call for video vid stores for chunk c
SpecEntry(vid, c) ==
    [values |-> <<Count(c.text, "a"), Count(c.text, "b")>>,
     metadata |-> [video_id |-> vid, text |-> c.text,
                   start_time |-> c.start_time, end_time |-> c.end_time,
                   start_formatted |-> c.start_formatted,
                   end_formatted |-> c.end_formatted]]

\* C1: when a completed indexing run is at once repeated for the same video
\* and the same transcript and completes again, the store after the second
\* run (its ids, and the vector and metadata under each id) equals the store
\* after the first.
C1_ReindexIdempotent ==
    (pc = "idx_done" /\ rerun) => store = store0

C1_Witness ==
    /\ pc = "idx_done" /\ rerun
    /\ Len(upserted) = 2
    /\ Cardinality(DOMAIN store) > 2

\* C2: when the embedding or the upsert of the chunk of ordinal j fails, the
\* call has ended in an error, the call upserted exactly the ordinals below j,
\* each of them is in the store with what this call wrote, and every id of an
\* ordinal from j on is as it was before the call.
C2_FailFastNoRollback ==
    failedAt # -1 =>
        /\ pc = "idx_raised"
        /\ result.status = "error"
        /\ upserted = [n \in 1..failedAt |-> SpecId(video_id, n - 1)]
        /\ \A n \in 1..failedAt :
              /\ SpecId(video_id, n - 1) \in DOMAIN store
              /\ store[SpecId(video_id, n - 1)] = SpecEntry(video_id, chunks.val[n])
        /\ \A n \in failedAt..(Len(chunks.val) - 1) :
              IF SpecId(video_id, n) \in DOMAIN store0
              THEN /\ SpecId(video_id, n) \in DOMAIN store
                   /\ store[SpecId(video_id, n)] = store0[SpecId(video_id, n)]
              ELSE SpecId(video_id, n) \notin DOMAIN store

C2_Witness ==
    /\ failedAt = 1
    /\ pc = "idx_raised"
    /\ upserted = <<SpecId(video_id, 0)>>
    /\ SpecId(video_id, 1) \in DOMAIN store

CeilDiv(n, k) == (n + k - 1) \div k

\* The entries of group g (from 1) of a list of n entries cut every k
GroupOf(data, g, k) == SubSeq(data, (g - 1) * k + 1, Min(g * k, Len(data)))

RECURSIVE Flatten(_)
Flatten(groups) == IF groups = <<>> THEN <<>> ELSE groups[1] \o Flatten(Tail(groups))

C4_NoCaptionsStopsBeforeIndexing ==
    (via = "process_video" /\ pc # "pv_transcript" /\ fetched.none) =>
        /\ pc = "pv_raised"
        /\ ~InIndexCall
        /\ embedReqs = <<>>
        /\ upserted = <<>>

\* C5: every embedding request of search_videos carries the query intent and
\* every embedding request of index_video_transcript the document intent.
C5_EmbeddingIntentFollowsCaller ==
    \A n \in 1..Len(embedReqs) :
        /\ embedReqs[n].caller = "search_videos"
              => embedReqs[n].req.task_type = "retrieval_query"
        /\ embedReqs[n].caller = "index_video_transcript"
              => embedReqs[n].req.task_type = "retrieval_document"

\* C6: for every transcript and every chunk_size <= 0, create_chunks fails
\* and returns no chunk sequence.
C6_NonPositiveChunkSizeFails ==
    (pc = "cc_ret" /\ ~transcript.none /\ chunk_size <= 0) =>
        /\ chunks.err # "none"
        /\ result.status = "error"

\* C7: for a positive top_k a completed search returns one result per match
\* of the store, in the store's order (descending score), each with that
\* match's score and the metadata stored under the match's id; so the result
\* holds at most top_k entries and at most as many as the store has, and an
\* empty match list gives an empty result and no error.
C7_SearchReturnsTheMatches ==
    (pc = "search_done" /\ top_k >= 1) =>
        /\ result.status = "ok"
        /\ Len(results) = Len(matches)
        /\ Len(results) <= top_k
        /\ Len(results) <= Cardinality(DOMAIN store)
        /\ \A n \in 1..Len(matches) :
              /\ matches[n].id \in DOMAIN store
              /\ results[n].score = matches[n].score
              /\ results[n].video_id = store[matches[n].id].metadata.video_id
              /\ results[n].text = store[matches[n].id].metadata.text
              /\ results[n].start_time = store[matches[n].id].metadata.start_time
              /\ results[n].end_time = store[matches[n].id].metadata.end_time
              /\ results[n].start_formatted = store[matches[n].id].metadata.start_formatted
              /\ results[n].end_formatted = store[matches[n].id].metadata.end_formatted
        /\ \A n \in 1..(Len(results) - 1) : results[n].score >= results[n + 1].score

C7_Witness ==
    /\ pc = "search_done"
    /\ top_k > Cardinality(DOMAIN store)
    /\ Len(results) >= 1
    /\ results[1].score > 0

EmptyJson == <<Tok("["), Tok("]")>>

\* C8: indexing an empty transcript, entered directly or through
\* process_video, gives an empty chunk sequence, sends no embedding request,
\* upserts nothing, leaves the store as it was and ends in success, never in
\* an error.
C8_EmptyTranscriptSucceeds ==
    (\/ InIndexCall /\ transcript_json = EmptyJson
     \/ via = "process_video" /\ pc # "pv_transcript" /\ fetched = Some(<<>>)) =>
        /\ pc \in {"idx_parse", "idx_done"}
        /\ embedReqs = <<>>
        /\ upserted = <<>>
        /\ store = store0
        /\ pc = "idx_done" => (result.status = "ok" /\ chunks = NoChunks)

C8_Witness ==
    /\ via = "process_video"
    /\ fetched = Some(<<>>)
    /\ pc = "idx_done"
    /\ result.status = "ok"
    /\ store # EmptyStore

\* C9: throughout an indexing call the ids upserted so far are
\* <video_id>_chunk_0, _1, ... in ascending order without a gap or a repeat;
\* a completed call for C chunks has upserted exactly C ids, and the entry of
\* ordinal n holds the n-th chunk's text and times and the call's video_id.
C9_OrdinalIdsPrefix ==
    InIndexCall =>
        /\ upserted = [n \in 1..Len(upserted) |-> SpecId(video_id, n - 1)]
        /\ \A m, n \in 1..Len(upserted) : upserted[m] = upserted[n] => m = n
        /\ Len(upserted) <= Len(chunks.val)
        /\ pc = "idx_done" =>
              /\ Len(upserted) = Len(chunks.val)
              /\ \A n \in 1..Len(chunks.val) :
                    /\ upserted[n] \in DOMAIN store
                    /\ store[upserted[n]].metadata.video_id = video_id
                    /\ store[upserted[n]].metadata.text = chunks.val[n].text
                    /\ store[upserted[n]].metadata.start_time = chunks.val[n].start_time
                    /\ store[upserted[n]].metadata.end_time = chunks.val[n].end_time
                    /\ store[upserted[n]].metadata.start_formatted
                          = chunks.val[n].start_formatted
                    /\ store[upserted[n]].metadata.end_formatted
                          = chunks.val[n].end_formatted

C9_Witness ==
    /\ pc = "idx_done"
    /\ Len(chunks.val) = 2
    /\ upserted = <<SpecId(video_id, 0), SpecId(video_id, 1)>>

\* The ids an indexing call for the current video and chunks may write
CallIds == {SpecId(video_id, n) : n \in 0..(Len(chunks.val) - 1)}

\* During an indexing call every entry the store held when the call began is
\* still there, unchanged unless its id is one of the call's own, and every
\* new id is one of the call's own; during a search the store is as it was
C10_FrameState ==
    /\ InIndexCall =>
          /\ \A id \in DOMAIN store0 :
                /\ id \in DOMAIN store
                /\ id \notin CallIds => store[id] = store0[id]
          /\ \A id \in DOMAIN store : id \in DOMAIN store0 \/ id \in CallIds
    /\ InSearchCall => store = store0

\* No step removes an id from the store, and no step of a search writes to it
C10_FrameStep ==
    /\ DOMAIN store \subseteq DOMAIN store'
    /\ InSearchCall => store' = store

\* C10: an indexing call changes only the entries <video_id>_chunk_0 ..
\* _chunk_(C-1): every other entry that was in the store when the call began
\* (another video's, or this video's with an ordinal >= C) is still there
\* unchanged and nothing else was added; a search leaves the store as it
\* was; and no step ever removes an id from the store.
C10_OnlyOwnIdsChange == []C10_FrameState /\ [][C10_FrameStep]_vars

C10_Witness ==
    /\ pc = "idx_done"
    /\ video_id = VidA
    /\ Len(chunks.val) = 1
    /\ SpecId(VidA, 1) \in DOMAIN store
    /\ SpecId(VidB, 0) \in DOMAIN store
    /\ store[SpecId(VidA, 0)] # store0[SpecId(VidA, 0)]

====
